---- MODULE Spec2Model ----
(***************************************************************************)
(* Model of the LaTeX compilation service (src/main.py).                   *)
(*                                                                         *)
(* One compile request is followed from the HTTP handler                   *)
(* (compile_single_file or compile_latex_project) through compile_project  *)
(* and run_bibtex_if_needed back to the handler's response.                *)
(*                                                                         *)
(* A transcript (the Python strings all_logs, first_pass_logs, bib_logs)   *)
(* is a sequence of sections; a section records the header of one          *)
(* "=== ... ===" block, the program it names, the return code it prints    *)
(* and the fixed text it carries.  The captured stdout/stderr of the       *)
(* external programs is arbitrary text and is not represented.             *)
(* A LaTeX source text is a sequence of tokens (substrings of interest).   *)
(***************************************************************************)
EXTENDS Integers, Sequences, FiniteSets, TLC

VARIABLES
    handler,          \* which endpoint serves the request
    filename_ok,      \* compile_single_file: file.filename.endswith('.tex')
    materialized,     \* compile_latex_project: outcome of create_project_structure + find_main_tex_file
    tex_content,      \* text of the entry document (tex_str / tex_content)
    io_ok,            \* whether reading the produced PDF succeeds (open/read)
    pc,               \* position of the request
    tmpdir,           \* tempfile.TemporaryDirectory of the request
    compiler,         \* result of choose_compiler
    bib_files,        \* some *.bib exists under the working directory
    aux_file,         \* state of <main>.aux in the working directory
    pdf_exists,       \* <main>.pdf exists in the working directory
    proc,             \* outcome of each engine invocation: proc[1..3]
    bib_proc,         \* outcome of each bibliography processor invocation
    invoked,          \* subprocess.run calls made so far, in order
    first_pass_logs,  \* compile_project local
    bib_run,          \* compile_project local
    bib_logs,         \* compile_project local
    all_logs,         \* compile_project local
    ret,              \* value returned by compile_project
    response,         \* what the handler gives back to the caller
    last_logs,        \* the function attribute compile_project.last_logs
    project_data,     \* CompileRequest.project_data, the folder tree
    main_file,        \* CompileRequest.main_file, the hint
    file_paths,       \* mapping from file id to path, from create_project_structure
    main_tex_path,    \* result of find_main_tex_file
    disk              \* directories and files on disk during materialization

project_vars == <<project_data, main_file, file_paths, main_tex_path, disk>>

vars == <<handler, filename_ok, materialized, tex_content, io_ok, pc, tmpdir,
          compiler, bib_files, aux_file, pdf_exists, proc, bib_proc, invoked,
          first_pass_logs, bib_run, bib_logs, all_logs, ret, response,
          last_logs, project_vars>>

(***************************************************************************)
(* Paths.  A path string is its list of components and whether it starts   *)
(* with "/"; an absolute location on disk is the list of its components.   *)
(***************************************************************************)
Rel(segs) == [abs |-> FALSE, segs |-> segs]

Abs(segs) == [abs |-> TRUE, segs |-> segs]

\* None, and the empty string
None == << >>

NoName == Rel(<< >>)

\* the tempfile.TemporaryDirectory of the request, and what exists before
\* anything is written
BasePath == <<"tmp", "proj">>

InitialDirs == { << >>, <<"tmp">>, <<"tmp", "proj">>, <<"etc">> }

NoDisk == [dirs |-> InitialDirs, written |-> {}, raised |-> FALSE]

NoProject ==
    [name |-> Rel(<<"project">>), is_root |-> TRUE, files |-> << >>, subfolders |-> << >>]

\* the state of the project variables while no project is being handled
ProjectIdle ==
    /\ project_data = NoProject
    /\ main_file = NoName
    /\ file_paths = << >>
    /\ main_tex_path = None
    /\ disk = NoDisk

(***************************************************************************)
(* Transcript sections                                                     *)
(***************************************************************************)
NoRc == 0 - 1

Sec(sec, prog, rc, text) == [sec |-> sec, prog |-> prog, rc |-> rc, text |-> text]

\* f"=== First Compilation Pass ({compiler}) ===\nReturn code: ...\nSTDOUT: ...\nSTDERR: ...\n\n"
PassTitle == <<"First Compilation Pass", "Second Compilation Pass", "Third Compilation Pass">>

PassLogs(n, comp, rc) == << Sec(PassTitle[n], comp, rc, "") >>

\* Outcomes of one subprocess.run call: the process exits with status 0,
\* exits with a non-zero status, exceeds its timeout (TimeoutExpired), or the
\* binary is not installed (FileNotFoundError).
Outcomes == {"exit0", "exit1", "timeout", "missing"}

ReturnCode(o) == IF o = "exit0" THEN 0 ELSE 1

\* <main>.aux after the first pass: missing, not readable, or readable with
\* neither marker, with \bibdata only, with \citation only, or with both
AuxStates == {"absent", "unreadable", "nomarkers", "bibdata", "citation", "markers"}

(***************************************************************************)
(* validate_tex_file and choose_compiler, on token sequences               *)
(***************************************************************************)
\* `pat in src` for Python strings: pat occurs as a contiguous run of src.
Contains(src, pat) ==
    \E i \in 1..(Len(src) - Len(pat) + 1) :
        \A j \in 1..Len(pat) : src[i + j - 1] = pat[j]

dangerous_commands ==
    << <<"\\write18">>,
       <<"\\immediate", "\\write18">>,
       <<"\\input{|">>,
       <<"\\openin">>,
       <<"\\openout">> >>

\* variant: only the shell-escape directives are looked for
validate_tex_file_shell_escape_only(tex_source) ==
    \A k \in 1..2 : ~Contains(tex_source, dangerous_commands[k])

\* TRUE when validate_tex_file returns normally, FALSE when it raises HTTPException(400)
validate_tex_file(tex_source) ==
    \A k \in 1..Len(dangerous_commands) : ~Contains(tex_source, dangerous_commands[k])

xelatex_packages == {"fontspec", "xltxtra", "xunicode", "polyglossia"}
lualatex_packages == {"luacode", "luatextra", "luamplib"}
font_commands == {"\\setmainfont", "\\setsansfont", "\\setmonofont"}

\* f'\\usepackage{{{pkg}}}' as a run of tokens
UsePackage(pkg) == <<"\\usepackage{", pkg, "}">>

\* tokens that stand for a character with ord(c) > 127
NonAscii == {"e-acute"}

\* variant: the character inspection comes before the LuaLaTeX packages
choose_compiler_non_ascii_first(tex_source) ==
    IF \E pkg \in xelatex_packages : Contains(tex_source, UsePackage(pkg))
    THEN "xelatex"
    ELSE IF \E i \in 1..Len(tex_source) : tex_source[i] \in NonAscii
    THEN "xelatex"
    ELSE IF \E pkg \in lualatex_packages : Contains(tex_source, UsePackage(pkg))
    THEN "lualatex"
    ELSE IF \E c \in font_commands : Contains(tex_source, <<c>>)
    THEN "xelatex"
    ELSE "pdflatex"

\* lines 204-233
choose_compiler(tex_source) ==
    IF \E pkg \in xelatex_packages : Contains(tex_source, UsePackage(pkg))
    THEN "xelatex"
    ELSE IF \E pkg \in lualatex_packages : Contains(tex_source, UsePackage(pkg))
    THEN "lualatex"
    ELSE IF \E i \in 1..Len(tex_source) : tex_source[i] \in NonAscii
    THEN "xelatex"
    ELSE IF \E c \in font_commands : Contains(tex_source, <<c>>)
    THEN "xelatex"
    ELSE "pdflatex"

(***************************************************************************)
(* run_bibtex_if_needed                                                    *)
(***************************************************************************)
\* variant: the legacy processor is tried first
BibProcessors_legacy_first == <<"bibtex", "biber">>

\* line 294
BibProcessors == <<"biber", "bibtex">>

Call(stage, n, prog) == [stage |-> stage, n |-> n, prog |-> prog]

\* "=== BIBER ===\nReturn code: ...\nSTDOUT: ...\nSTDERR: ...\n\n"
BibProcLogs(p, rc) == << Sec("BIB PROCESSOR", p, rc, "") >>

\* f"Failed to run {bib_processor}: {str(e)}\n"
BibFailedToRun(p, o) == << Sec("", p, NoRc, "Failed to run: " \o o) >>

\* '\\bibdata' in aux_content, '\\citation' in aux_content
HasBibdata(aux) == aux \in {"bibdata", "markers"}

HasCitation(aux) == aux \in {"citation", "markers"}

\* variant: the .aux file is not looked at
BibSkipReason_bib_only(bibs, aux) ==
    IF ~bibs THEN "No .bib files found" ELSE ""

\* the early returns before the processor loop (lines 276-291)
BibSkipReason(bibs, aux) ==
    IF ~bibs THEN "No .bib files found"
    ELSE IF aux = "absent" THEN "No .aux file found"
    ELSE IF aux = "unreadable" THEN "Error reading .aux file"
    ELSE IF ~HasBibdata(aux) /\ ~HasCitation(aux)
    THEN "No bibliography citations found in .aux file"
    ELSE ""

\* subprocess.run raised instead of returning a CompletedProcess
Raised(o) == o \in {"timeout", "missing"}

\* variant: the except clause names FileNotFoundError only
BibCaught_missing_only(o) == o = "missing"

\* line 314: except (subprocess.TimeoutExpired, FileNotFoundError)
BibCaught(o) == o \in {"timeout", "missing"}

\* the loop `for bib_processor in ['biber', 'bibtex']`, from processor i on,
\* with o[p] the outcome of invoking processor p; raised is the exception
\* that leaves run_bibtex_if_needed, if any
RECURSIVE BibLoop(_, _, _, _)
BibLoop(i, logs, calls, o) ==
    IF i > Len(BibProcessors)
    THEN [ran |-> FALSE, logs |-> logs, calls |-> calls, raised |-> "none"]
    ELSE LET p == BibProcessors[i]
             called == Append(calls, Call("bib", i, p))
         IN  IF Raised(o[p])
             THEN IF BibCaught(o[p])
                  THEN BibLoop(i + 1, logs \o BibFailedToRun(p, o[p]), called, o)
                  ELSE [ran |-> FALSE, logs |-> logs, calls |-> called, raised |-> o[p]]
             ELSE LET logged == logs \o BibProcLogs(p, ReturnCode(o[p]))
                  IN  IF ReturnCode(o[p]) = 0
                      THEN [ran |-> TRUE, logs |-> logged, calls |-> called, raised |-> "none"]
                      ELSE BibLoop(i + 1, logged, called, o)

run_bibtex_if_needed(bibs, aux, o) ==
    IF BibSkipReason(bibs, aux) # ""
    THEN [ran |-> FALSE,
          logs |-> << Sec("", "", NoRc, BibSkipReason(bibs, aux)) >>,
          calls |-> << >>,
          raised |-> "none"]
    ELSE BibLoop(1, << >>, << >>, o)

(***************************************************************************)
(* compile_project                                                         *)
(***************************************************************************)
\* variant: the transcript of a processor that ran is not appended
BibSection_dropped(ran, logs) ==
    IF ran THEN << >>
    ELSE << Sec("Bibliography Processing", "", NoRc, "") >> \o logs

\* lines 561-564: what compile_project appends for the bibliography stage
BibSection(ran, logs) ==
    IF ran THEN logs
    ELSE << Sec("Bibliography Processing", "", NoRc, "") >> \o logs

\* variant: the first-pass transcript is prepended as on the other failure paths
FirstPassFailed_prepended(all, first) == first \o all

\* line 557: the transcript returned when the first pass exits non-zero
FirstPassFailed(all, first) == all

\* line 589: the transcript returned when the second pass exits non-zero
SecondPassFailed(all, first) == first \o all

\* variant: the third pass is run unconditionally
ThirdPassScheduled_always(ran) == TRUE

\* line 593: whether the third pass is run
ThirdPassScheduled(ran) == ran

\* variant: a non-zero third pass is treated like a non-zero second pass
ThirdPassFatal_nonzero(rc) == rc # 0

\* lines 613-614: whether a non-zero third pass ends the request as failed
ThirdPassFatal(rc) == FALSE

\* variant: the existence check is left out
PdfGenerated_unchecked(pdf) == TRUE

\* line 618: pdf_path.exists()
PdfGenerated(pdf) == pdf

\* lines 619-622
PdfMissing(all, first) ==
    first \o (all \o << Sec("ERROR", "", NoRc, "PDF file was not generated despite successful compilation") >>)

\* line 624
Successful(all) == all \o << Sec("COMPILATION SUCCESSFUL", "", NoRc, "") >>

\* variant: the timeout is not recorded in the transcript
TimeoutExpiredHandler_silent(all, first) == first \o all

\* lines 628-632
TimeoutExpiredHandler(all, first) ==
    first \o (all \o << Sec("TIMEOUT ERROR", "", NoRc, "Compilation timed out after 120 seconds") >>)

\* lines 633-638
ExceptionHandler(all, first) ==
    first \o (all \o << Sec("UNEXPECTED ERROR", "", NoRc, "str(e)") >>)

Return(ok, logs) == [success |-> ok, logs |-> logs]

NoReturn == [success |-> FALSE, logs |-> << >>]

\* lines 628-638: the except clauses of compile_project
Except(o, all, first) ==
    IF o = "timeout" THEN TimeoutExpiredHandler(all, first)
    ELSE ExceptionHandler(all, first)

\* variant: subprocess.run is called without a timeout, so a process that
\* overruns is waited for without end
Returns_no_timeout(o) == o # "timeout"

\* lines 546, 576, 603 (timeout=120) and line 304 (timeout=30): the call
\* comes back whatever the process does
Returns(o) == TRUE

\* the request stays inside a subprocess.run that does not come back
Blocked ==
    /\ pc' = "waiting"
    /\ UNCHANGED <<project_vars, handler, filename_ok, materialized, tex_content, io_ok,
                   tmpdir, compiler, bib_files, aux_file, pdf_exists, proc, bib_proc,
                   invoked, first_pass_logs, bib_run, bib_logs, all_logs, ret, response,
                   last_logs>>

\* variant: the status of the first pass is not looked at
FirstPassCritical_ignored(rc) == FALSE

\* line 555: whether the first pass ends the request
FirstPassCritical(rc) == rc # 0

\* lines 538-557
FirstPass ==
    /\ pc = "pass1"
    /\ \E o \in Outcomes, aux \in AuxStates, pdf \in BOOLEAN :
        IF ~Returns(o)
        THEN Blocked
        ELSE /\ proc' = [proc EXCEPT ![1] = o]
             /\ invoked' = Append(invoked, Call("engine", 1, compiler))
             /\ IF o = "missing"
                THEN UNCHANGED <<aux_file, pdf_exists>>
                ELSE aux_file' = aux /\ pdf_exists' = pdf
             /\ IF Raised(o)
                THEN /\ all_logs' = Except(o, all_logs, first_pass_logs)
                     /\ UNCHANGED first_pass_logs
                     /\ ret' = Return(FALSE, all_logs')
                     /\ pc' = "returned"
                ELSE /\ first_pass_logs' = PassLogs(1, compiler, ReturnCode(o))
                     /\ IF FirstPassCritical(ReturnCode(o))
                        THEN /\ all_logs' = FirstPassFailed(all_logs \o first_pass_logs', first_pass_logs')
                             /\ ret' = Return(FALSE, all_logs')
                             /\ pc' = "returned"
                        ELSE /\ all_logs' = all_logs \o first_pass_logs'
                             /\ UNCHANGED ret
                             /\ pc' = "bib"
             /\ UNCHANGED <<project_vars, handler, filename_ok, materialized, tex_content, io_ok, tmpdir,
                            compiler, bib_files, bib_proc, bib_run, bib_logs, response,
                            last_logs>>

\* lines 559-564
BibDecision ==
    /\ pc = "bib"
    /\ \E o \in [{"biber", "bibtex"} -> Outcomes] :
        LET r == run_bibtex_if_needed(bib_files, aux_file, o)
        IN  IF \E k \in 1..Len(r.calls) : ~Returns(o[r.calls[k].prog])
            THEN Blocked
            ELSE
            /\ invoked' = invoked \o r.calls
            /\ bib_proc' = [p \in {"biber", "bibtex"} |->
                              IF \E k \in 1..Len(r.calls) : r.calls[k].prog = p
                              THEN o[p] ELSE "none"]
            /\ IF r.raised # "none"
               THEN /\ all_logs' = Except(r.raised, all_logs, first_pass_logs)
                    /\ ret' = Return(FALSE, all_logs')
                    /\ pc' = "returned"
                    /\ UNCHANGED <<bib_run, bib_logs>>
               ELSE /\ bib_run' = r.ran
                    /\ bib_logs' = r.logs
                    /\ all_logs' = all_logs \o BibSection(r.ran, r.logs)
                    /\ pc' = "pass2"
                    /\ UNCHANGED ret
            /\ UNCHANGED <<project_vars, handler, filename_ok, materialized, tex_content, io_ok, tmpdir,
                           compiler, bib_files, aux_file, pdf_exists, proc,
                           first_pass_logs, response, last_logs>>

\* lines 566-590
SecondPass ==
    /\ pc = "pass2"
    /\ \E o \in Outcomes, pdf \in BOOLEAN :
        IF ~Returns(o)
        THEN Blocked
        ELSE /\ proc' = [proc EXCEPT ![2] = o]
             /\ invoked' = Append(invoked, Call("engine", 2, compiler))
             /\ pdf_exists' = IF o = "missing" THEN pdf_exists ELSE pdf
             /\ IF Raised(o)
                THEN /\ all_logs' = Except(o, all_logs, first_pass_logs)
                     /\ ret' = Return(FALSE, all_logs')
                     /\ pc' = "returned"
                ELSE LET second_pass_logs == PassLogs(2, compiler, ReturnCode(o))
                     IN  IF ReturnCode(o) # 0
                         THEN /\ all_logs' = SecondPassFailed(all_logs \o second_pass_logs, first_pass_logs)
                              /\ ret' = Return(FALSE, all_logs')
                              /\ pc' = "returned"
                         ELSE /\ all_logs' = all_logs \o second_pass_logs
                              /\ UNCHANGED ret
                              /\ pc' = IF ThirdPassScheduled(bib_run) THEN "pass3" ELSE "finalize"
             /\ UNCHANGED <<project_vars, handler, filename_ok, materialized, tex_content, io_ok, tmpdir,
                            compiler, bib_files, aux_file, bib_proc, first_pass_logs,
                            bib_run, bib_logs, response, last_logs>>

\* lines 592-614
ThirdPass ==
    /\ pc = "pass3"
    /\ \E o \in Outcomes, pdf \in BOOLEAN :
        IF ~Returns(o)
        THEN Blocked
        ELSE /\ proc' = [proc EXCEPT ![3] = o]
             /\ invoked' = Append(invoked, Call("engine", 3, compiler))
             /\ pdf_exists' = IF o = "missing" THEN pdf_exists ELSE pdf
             /\ IF Raised(o)
                THEN /\ all_logs' = Except(o, all_logs, first_pass_logs)
                     /\ ret' = Return(FALSE, all_logs')
                     /\ pc' = "returned"
                ELSE LET third_pass_logs == PassLogs(3, compiler, ReturnCode(o))
                     IN  /\ all_logs' = all_logs \o third_pass_logs
                         /\ IF ThirdPassFatal(ReturnCode(o))
                            THEN ret' = Return(FALSE, all_logs') /\ pc' = "returned"
                            ELSE UNCHANGED ret /\ pc' = "finalize"
             /\ UNCHANGED <<project_vars, handler, filename_ok, materialized, tex_content, io_ok, tmpdir,
                            compiler, bib_files, aux_file, bib_proc, first_pass_logs,
                            bib_run, bib_logs, response, last_logs>>

\* lines 616-626
Finalizing ==
    /\ pc = "finalize"
    /\ IF ~PdfGenerated(pdf_exists)
       THEN /\ all_logs' = PdfMissing(all_logs, first_pass_logs)
            /\ ret' = Return(FALSE, all_logs')
            /\ UNCHANGED last_logs
       ELSE /\ all_logs' = Successful(all_logs)
            /\ last_logs' = all_logs'
            /\ ret' = Return(TRUE, all_logs')
    /\ pc' = "returned"
    /\ UNCHANGED <<project_vars, handler, filename_ok, materialized, tex_content, io_ok, tmpdir,
                   compiler, bib_files, aux_file, pdf_exists, proc, bib_proc,
                   invoked, first_pass_logs, bib_run, bib_logs, response>>

(***************************************************************************)
(* The handlers compile_single_file and compile_latex_project              *)
(***************************************************************************)
Response(status, message, error, logs, code) ==
    [status |-> status, message |-> message, error |-> error, logs |-> logs, code |-> code]

NoResponse == Response("", "", "", << >>, 0)

\* raise HTTPException(status_code=400, detail=...)
HTTPException(code, detail) == Response("HTTPException", detail, detail, << >>, code)

\* lines 383-393 and 508-518: the handlers' `except Exception` for anything
\* that is not an HTTPException
InternalServerError == Response("error", "Internal server error", "Internal server error", << >>, 200)

\* lines 359-367
SingleFailed(logs) ==
    Response("error", "LaTeX compilation failed", "LaTeX compilation failed", logs, 200)

\* lines 468-477
ProjectFailed(logs) ==
    Response("error", "LaTeX project compilation failed", "LaTeX project compilation failed", logs, 200)

\* lines 483-492
ProjectPdfNotGenerated(logs) ==
    Response("error", "PDF was not generated",
             "PDF was not generated despite successful compilation", logs, 200)

\* lines 374-381 and 498-506
Succeeded(logs) == Response("success", "LaTeX compilation successful", "", logs, 200)

\* entry documents the requests of this model carry
SampleSources ==
    { <<"\\documentclass">>,
      <<"\\documentclass">> \o UsePackage("fontspec"),
      UsePackage("luacode") \o <<"e-acute">>,
      <<"\\setmainfont">>,
      <<"\\documentclass", "\\immediate", "\\write18">>,
      <<"\\write18">>,
      <<"\\input{|", "\\documentclass">>,
      <<"\\documentclass", "\\openin">>,
      UsePackage("fontspec") \o <<"\\openout">> }

\* outcomes of create_project_structure followed by find_main_tex_file
Materializations == {"no_files", "no_main", "ok"}

\* variant: the working directory is left behind
TemporaryDirectoryExit_kept(t) == t

\* leaving `with tempfile.TemporaryDirectory() as tmpdir` (lines 348, 436),
\* by return or by exception
TemporaryDirectoryExit(t) == "removed"

\* lines 332-357, up to the call of compile_project
compile_single_file ==
    /\ pc = "start"
    /\ handler = "single"
    /\ IF ~filename_ok
       THEN /\ response' = HTTPException(400, "File must have .tex extension")
            /\ pc' = "done"
            /\ UNCHANGED <<compiler, tmpdir>>
       ELSE IF ~validate_tex_file(tex_content)
       THEN /\ response' = HTTPException(400, "Potentially dangerous command detected")
            /\ pc' = "done"
            /\ UNCHANGED <<compiler, tmpdir>>
       ELSE /\ compiler' = choose_compiler(tex_content)
            /\ tmpdir' = "exists"
            /\ pc' = "pass1"
            /\ UNCHANGED response
    /\ UNCHANGED <<project_vars, handler, filename_ok, materialized, tex_content, io_ok,
                   bib_files, aux_file, pdf_exists, proc, bib_proc, invoked,
                   first_pass_logs, bib_run, bib_logs, all_logs, ret, last_logs>>

\* lines 357-393, from the return of compile_project on
compile_single_file_return ==
    /\ pc = "returned"
    /\ handler = "single"
    /\ \E io \in BOOLEAN :
        /\ io_ok' = io
        /\ response' = IF ~ret.success THEN SingleFailed(ret.logs)
                       ELSE IF ~pdf_exists \/ ~io THEN InternalServerError
                       ELSE Succeeded(ret.logs)
    /\ tmpdir' = TemporaryDirectoryExit("exists")
    /\ pc' = "done"
    /\ UNCHANGED <<project_vars, handler, filename_ok, materialized, tex_content, compiler,
                   bib_files, aux_file, pdf_exists, proc, bib_proc, invoked,
                   first_pass_logs, bib_run, bib_logs, all_logs, ret, last_logs>>

\* lines 435-466, up to the call of compile_project
compile_latex_project ==
    /\ pc = "start"
    /\ handler = "project"
    /\ IF materialized = "no_files"
       THEN /\ response' = HTTPException(400, "No valid files found in project")
            /\ pc' = "done"
            /\ tmpdir' = TemporaryDirectoryExit("exists")
            /\ UNCHANGED compiler
       ELSE IF materialized = "no_main"
       THEN /\ response' = HTTPException(400, "No main .tex file found in project")
            /\ pc' = "done"
            /\ tmpdir' = TemporaryDirectoryExit("exists")
            /\ UNCHANGED compiler
       ELSE IF ~validate_tex_file(tex_content)
       THEN /\ response' = HTTPException(400, "Potentially dangerous command detected")
            /\ pc' = "done"
            /\ tmpdir' = TemporaryDirectoryExit("exists")
            /\ UNCHANGED compiler
       ELSE /\ compiler' = choose_compiler(tex_content)
            /\ tmpdir' = "exists"
            /\ pc' = "pass1"
            /\ UNCHANGED response
    /\ UNCHANGED <<project_vars, handler, filename_ok, materialized, tex_content, io_ok,
                   bib_files, aux_file, pdf_exists, proc, bib_proc, invoked,
                   first_pass_logs, bib_run, bib_logs, all_logs, ret, last_logs>>

\* lines 466-518, from the return of compile_project on
compile_latex_project_return ==
    /\ pc = "returned"
    /\ handler = "project"
    /\ \E io \in BOOLEAN :
        /\ io_ok' = io
        /\ response' = IF ~ret.success THEN ProjectFailed(ret.logs)
                       ELSE IF ~pdf_exists THEN ProjectPdfNotGenerated(ret.logs)
                       ELSE IF ~io THEN InternalServerError
                       ELSE Succeeded(ret.logs)
    /\ tmpdir' = TemporaryDirectoryExit("exists")
    /\ pc' = "done"
    /\ UNCHANGED <<project_vars, handler, filename_ok, materialized, tex_content, compiler,
                   bib_files, aux_file, pdf_exists, proc, bib_proc, invoked,
                   first_pass_logs, bib_run, bib_logs, all_logs, ret, last_logs>>

(***************************************************************************)
(* The specification of one request                                        *)
(***************************************************************************)
Init ==
    /\ handler \in {"single", "project"}
    /\ filename_ok \in (IF handler = "single" THEN BOOLEAN ELSE {TRUE})
    /\ materialized \in (IF handler = "project" THEN Materializations ELSE {"ok"})
    /\ tex_content \in SampleSources
    /\ bib_files \in BOOLEAN
    /\ io_ok = TRUE
    /\ pc = "start"
    /\ tmpdir = "none"
    /\ compiler = ""
    /\ aux_file = "absent"
    /\ pdf_exists = FALSE
    /\ proc = [n \in 1..3 |-> "none"]
    /\ bib_proc = [p \in {"biber", "bibtex"} |-> "none"]
    /\ invoked = << >>
    /\ first_pass_logs = << >>
    /\ bib_run = FALSE
    /\ bib_logs = << >>
    /\ all_logs = << >>
    /\ ret = NoReturn
    /\ response = NoResponse
    /\ last_logs = << >>
    /\ ProjectIdle

Next ==
    \/ compile_single_file
    \/ compile_latex_project
    \/ FirstPass
    \/ BibDecision
    \/ SecondPass
    \/ ThirdPass
    \/ Finalizing
    \/ compile_single_file_return
    \/ compile_latex_project_return

Spec == Init /\ [][Next]_vars

(***************************************************************************)
(* Vocabulary of the properties                                            *)
(***************************************************************************)
\* compile_project was called and has returned
CompileReturned == pc \in {"returned", "done"} /\ proc[1] # "none"

IsPrefix(p, q) == Len(p) <= Len(q) /\ SubSeq(q, 1, Len(p)) = p

IsPassSection(s) == \E n \in 1..3 : s.sec = PassTitle[n]

\* the compilation-pass sections of a transcript, in order
PassSections(logs) == SelectSeq(logs, IsPassSection)

HasSection(logs, title) == \E k \in 1..Len(logs) : logs[k].sec = title

EngineInvoked(n) == \E k \in 1..Len(invoked) : invoked[k].stage = "engine" /\ invoked[k].n = n

BibInvoked == \E k \in 1..Len(invoked) : invoked[k].stage = "bib"

\* the fields of a response that name the failure, apart from the transcript
Kind(r) == <<r.status, r.message, r.error, r.code>>

(***************************************************************************)
(* C1.  When pass 1 exits with status 0 and pass 2 exits non-zero,         *)
(* compile_project returns a failure whose transcript begins with the      *)
(* pass-1 transcript, followed by the bibliography transcript, followed by *)
(* the pass-2 transcript.                                                  *)
(***************************************************************************)
C1_SecondPassFailureTranscript ==
    (CompileReturned /\ proc[1] = "exit0" /\ proc[2] = "exit1")
    => /\ ~ret.success
       /\ IsPrefix(PassLogs(1, compiler, 0) \o BibSection(bib_run, bib_logs)
                      \o PassLogs(2, compiler, 1),
                   ret.logs)

(***************************************************************************)
(* C2.  When pass 1 exits non-zero, compile_project fails at once: the     *)
(* only subprocess invoked is the first engine pass, and the transcript is *)
(* exactly the pass-1 transcript.                                          *)
(***************************************************************************)
C2_FirstPassFailure ==
    (pc # "start" /\ proc[1] = "exit1")
    => /\ CompileReturned
       /\ ~ret.success
       /\ ret.logs = PassLogs(1, compiler, 1)
       /\ invoked = << Call("engine", 1, compiler) >>
       /\ (pc = "done" => response.status = "error" /\ response.logs = PassLogs(1, compiler, 1))

C2_Witness == pc = "done" /\ proc[1] = "exit1" /\ bib_files

(***************************************************************************)
(* C3.  A pass-3 invocation that exceeds its timeout is not fatal: with    *)
(* pass 1 and pass 2 exited 0 and the PDF present, compile_project returns *)
(* success.                                                                *)
(***************************************************************************)
C3_ThirdPassTimeoutNotFatal ==
    (CompileReturned /\ proc[1] = "exit0" /\ proc[2] = "exit0"
        /\ proc[3] = "timeout" /\ pdf_exists)
    => ret.success

(***************************************************************************)
(* C4.  A pass-3 invocation that exits non-zero is not fatal: with pass 2  *)
(* exited 0 and the PDF present, compile_project returns success and the   *)
(* pass-3 transcript directly follows the pass-2 transcript.               *)
(***************************************************************************)
C4_ThirdPassFailureNotFatal ==
    (CompileReturned /\ proc[2] = "exit0" /\ proc[3] = "exit1" /\ pdf_exists)
    => /\ ret.success
       /\ \E k \in 1..(Len(ret.logs) - 1) :
            /\ << ret.logs[k] >> = PassLogs(2, compiler, 0)
            /\ << ret.logs[k + 1] >> = PassLogs(3, compiler, 1)

C4_Witness == pc = "done" /\ proc[2] = "exit0" /\ proc[3] = "exit1" /\ pdf_exists

(***************************************************************************)
(* C5.  The request was ended by a pass-1 or pass-2 timeout / by a pass-1  *)
(* or pass-2 non-zero exit.                                                *)
(***************************************************************************)
AbortedByTimeout == proc[1] = "timeout" \/ (proc[1] = "exit0" /\ proc[2] = "timeout")

AbortedByExit == proc[1] = "exit1" \/ (proc[1] = "exit0" /\ proc[2] = "exit1")

\* the response a handler gives for a non-zero exit of pass 1 or pass 2
CompileFailedKind ==
    IF handler = "single" THEN Kind(SingleFailed(<< >>)) ELSE Kind(ProjectFailed(<< >>))

AllPassesSucceeded ==
    /\ proc[1] = "exit0"
    /\ proc[2] = "exit0"
    /\ proc[3] = (IF bib_run THEN "exit0" ELSE "none")

C6_ArtifactMissing ==
    (CompileReturned /\ AllPassesSucceeded /\ ~pdf_exists)
    => /\ ~ret.success
       /\ ret.logs[Len(ret.logs)].sec = "ERROR"
       /\ \A n \in 1..3 :
            proc[n] # "none" => \E k \in 1..Len(ret.logs) : << ret.logs[k] >> = PassLogs(n, compiler, 0)
       /\ (pc = "done" => response.status = "error" /\ response.logs = ret.logs)

C6_Witness == pc = "done" /\ AllPassesSucceeded /\ bib_run /\ ~pdf_exists

(***************************************************************************)
(* C7.  Every terminal failure of a request in which at least one engine   *)
(* pass was attempted returns a non-empty transcript to the caller.        *)
(***************************************************************************)
C7_FailureCarriesTranscript ==
    (pc = "done" /\ response.status = "error" /\ EngineInvoked(1))
    => response.logs # << >>

(***************************************************************************)
(* C8.  The bibliography stage never fails the pipeline: once pass 1 has   *)
(* exited 0, the step after the bibliography stage is pass 2, so no        *)
(* request whose pass 1 exited 0 returns without pass 2 invoked, whatever  *)
(* the processors did.                                                     *)
(***************************************************************************)
C8_BibNeverFatal ==
    /\ (pc = "bib" => proc[1] = "exit0" /\ ~EngineInvoked(2))
    /\ (proc[1] = "exit0" /\ pc \notin {"pass1", "bib"}) =>
          /\ bib_run \in BOOLEAN
          /\ pc = "pass2" \/ EngineInvoked(2)

C8_Witness ==
    /\ pc = "done"
    /\ proc[1] = "exit0"
    /\ bib_proc["biber"] = "timeout"
    /\ bib_proc["bibtex"] = "missing"
    /\ EngineInvoked(2)

(***************************************************************************)
(* C9.  When the bibliography stage is skipped because no .bib file        *)
(* exists, pass 3 is never invoked and a successful transcript has exactly *)
(* two compilation-pass sections, first then second.                       *)
(***************************************************************************)
C9_NoBibTwoPasses ==
    (~bib_files)
    => /\ ~EngineInvoked(3)
       /\ ~BibInvoked
       /\ (CompileReturned /\ ret.success)
            => PassSections(ret.logs) = PassLogs(1, compiler, 0) \o PassLogs(2, compiler, 0)

C9_Witness == pc = "done" /\ ~bib_files /\ ret.success /\ aux_file = "markers"

(***************************************************************************)
(* C10.  When a bibliography processor exits successfully, a successful    *)
(* transcript has exactly three compilation-pass sections, once each, in   *)
(* the order first, second, third, and the bibliography transcript lies    *)
(* between the first and the second.                                       *)
(***************************************************************************)
C10_BibThreePasses ==
    (CompileReturned /\ bib_run /\ ret.success)
    => /\ Len(PassSections(ret.logs)) = 3
       /\ \A n \in 1..3 : PassSections(ret.logs)[n].sec = PassTitle[n]
       /\ bib_logs # << >>
       /\ IsPrefix(PassLogs(1, compiler, 0) \o bib_logs \o PassLogs(2, compiler, 0), ret.logs)
       /\ << ret.logs[Len(ret.logs) - 1] >> = PassLogs(3, compiler, ReturnCode(proc[3]))

C10_Witness == pc = "done" /\ bib_run /\ ret.success /\ bib_proc["bibtex"] = "exit0"


(***************************************************************************)
(* C11.  Validation gate: when the entry document of a request contains a  *)
(* forbidden construct (\write18, \input{|, \openin, \openout), the        *)
(* request ends as failed (HTTP 400) before an engine is chosen, and no    *)
(* engine pass and no bibliography processor is ever invoked for it.       *)
(***************************************************************************)
Forbidden == {"\\write18", "\\input{|", "\\openin", "\\openout"}

HasForbidden(src) == \E i \in 1..Len(src) : src[i] \in Forbidden

\* the request gets as far as having an entry document
EntryResolved == IF handler = "single" THEN filename_ok ELSE materialized = "ok"

C11_ValidationGate ==
    (HasForbidden(tex_content) /\ EntryResolved)
    => /\ invoked = << >>
       /\ compiler = ""
       /\ pc \in {"start", "done"}
       /\ (pc = "done" => response.status = "HTTPException" /\ response.code = 400)

C11_Witness ==
    /\ pc = "done"
    /\ handler = "project"
    /\ EntryResolved
    /\ Contains(tex_content, <<"\\openout">>)

(***************************************************************************)
(* C17.  In every terminal state of a request its working directory no     *)
(* longer exists, whatever the exit path (success, compile failure,        *)
(* missing artifact, timeout, validation rejection, unexpected exception). *)
(***************************************************************************)
C17_WorkdirRemoved == pc = "done" => tmpdir # "exists"

C17_Witness ==
    /\ pc = "done"
    /\ tmpdir = "removed"
    /\ ret.success
    /\ ~io_ok
    /\ response = InternalServerError

(***************************************************************************)
(* C18.  No request writes a variable that outlives it: the only data      *)
(* shared between requests is read-only, so the function attribute         *)
(* compile_project.last_logs is never written.                             *)
(***************************************************************************)
C18_NoSharedMutableState == last_logs = << >>

(***************************************************************************)
(* C19.  When the bibliography stage reaches the processor list, biber is  *)
(* tried first and bibtex second; the first processor that exits 0 ends    *)
(* the list; a processor that exits non-zero, times out or is missing is   *)
(* followed by the next one; the stage reports 'ran' exactly when some     *)
(* processor exited 0.                                                     *)
(***************************************************************************)
\* run_bibtex_if_needed has returned to compile_project
BibStageDone == proc[1] = "exit0" /\ pc \notin {"start", "pass1", "bib"}

ProcessorsReached == bib_files /\ (HasBibdata(aux_file) \/ HasCitation(aux_file))

IsBibCall(c) == c.stage = "bib"

\* the bibliography processors invoked, in order
BibCallNames ==
    LET calls == SelectSeq(invoked, IsBibCall)
    IN  [k \in 1..Len(calls) |-> calls[k].prog]

C19_ProcessorOrder ==
    (BibStageDone /\ ProcessorsReached)
    => /\ BibCallNames = (IF bib_proc["biber"] = "exit0" THEN <<"biber">>
                          ELSE <<"biber", "bibtex">>)
       /\ bib_proc["biber"] # "none"
       /\ (bib_proc["biber"] = "exit0") = (bib_proc["bibtex"] = "none")
       /\ bib_run = (bib_proc["biber"] = "exit0" \/ bib_proc["bibtex"] = "exit0")

C19_Witness ==
    /\ BibStageDone
    /\ bib_proc["biber"] = "timeout"
    /\ bib_proc["bibtex"] = "exit0"
    /\ bib_run

(***************************************************************************)
(* C20.  A bibliography processor is invoked only if a .bib file exists,   *)
(* <main>.aux exists, and the .aux content has a \bibdata or a \citation   *)
(* marker, checked in this order; when one of them fails no processor is   *)
(* invoked and the stage returns 'not run' with the reason of the first    *)
(* failed condition.                                                       *)
(***************************************************************************)
C20_BibGating ==
    BibStageDone
    => /\ BibInvoked => /\ bib_files
                        /\ aux_file \notin {"absent", "unreadable"}
                        /\ HasBibdata(aux_file) \/ HasCitation(aux_file)
       /\ ~ProcessorsReached
            => /\ ~BibInvoked
               /\ ~bib_run
               /\ Len(bib_logs) = 1
               /\ (~bib_files => bib_logs[1].text = "No .bib files found")
               /\ (bib_files /\ aux_file = "absent"
                     => bib_logs[1].text = "No .aux file found")
               /\ (bib_files /\ aux_file = "nomarkers"
                     => bib_logs[1].text = "No bibliography citations found in .aux file")

C20_Witness ==
    /\ pc = "done"
    /\ BibStageDone
    /\ bib_files
    /\ aux_file = "nomarkers"
    /\ ~BibInvoked


(***************************************************************************)
(* choose_compiler on its own: every source text up to MaxTexLen tokens    *)
(***************************************************************************)
MaxTexLen == 6

EngineTokens == {"\\usepackage{", "fontspec", "luacode", "}", "e-acute", "\\setmainfont"}

EngineSources == UNION { [1..n -> EngineTokens] : n \in 0..MaxTexLen }

InitEngine ==
    /\ tex_content \in EngineSources
    /\ pc = "select"
    /\ handler = "single"
    /\ filename_ok = TRUE
    /\ materialized = "ok"
    /\ bib_files = FALSE
    /\ io_ok = TRUE
    /\ tmpdir = "none"
    /\ compiler = ""
    /\ aux_file = "absent"
    /\ pdf_exists = FALSE
    /\ proc = [n \in 1..3 |-> "none"]
    /\ bib_proc = [p \in {"biber", "bibtex"} |-> "none"]
    /\ invoked = << >>
    /\ first_pass_logs = << >>
    /\ bib_run = FALSE
    /\ bib_logs = << >>
    /\ all_logs = << >>
    /\ ret = NoReturn
    /\ response = NoResponse
    /\ last_logs = << >>
    /\ ProjectIdle

\* line 345 / line 462: compiler = choose_compiler(tex_str)
SelectEngine ==
    /\ pc = "select"
    /\ compiler' = choose_compiler(tex_content)
    /\ pc' = "selected"
    /\ UNCHANGED <<project_vars, handler, filename_ok, materialized, tex_content, io_ok, tmpdir,
                   bib_files, aux_file, pdf_exists, proc, bib_proc, invoked,
                   first_pass_logs, bib_run, bib_logs, all_logs, ret, response,
                   last_logs>>

NextEngine == SelectEngine

SpecEngine == InitEngine /\ [][NextEngine]_vars

(***************************************************************************)
(* C16.  choose_compiler follows the rule precedence 1 > 2 > 3 > 4 > 5: a  *)
(* XeLaTeX-only package reference selects xelatex; otherwise a             *)
(* LuaLaTeX-only package reference selects lualatex, also when the text    *)
(* has non-ASCII characters or font-selection commands; otherwise          *)
(* non-ASCII content or a font-selection command selects xelatex;          *)
(* otherwise pdflatex.  The choice is a function of the text alone.        *)
(***************************************************************************)
RefersTo(src, pkgs) ==
    \E i \in 1..(Len(src) - 2) :
        src[i] = "\\usepackage{" /\ src[i + 1] \in pkgs /\ src[i + 2] = "}"

HasNonAscii(src) == \E i \in 1..Len(src) : src[i] = "e-acute"

HasFontCommand(src) ==
    \E i \in 1..Len(src) : src[i] \in {"\\setmainfont", "\\setsansfont", "\\setmonofont"}

UnicodeOnlyPackages == {"fontspec", "xltxtra", "xunicode", "polyglossia"}

ProgrammableOnlyPackages == {"luacode", "luatextra", "luamplib"}

C16_EnginePrecedence ==
    pc = "selected"
    => LET r1 == RefersTo(tex_content, UnicodeOnlyPackages)
           r2 == RefersTo(tex_content, ProgrammableOnlyPackages)
           r34 == HasNonAscii(tex_content) \/ HasFontCommand(tex_content)
       IN  /\ r1 => compiler = "xelatex"
           /\ (~r1 /\ r2) => compiler = "lualatex"
           /\ (~r1 /\ ~r2 /\ r34) => compiler = "xelatex"
           /\ (~r1 /\ ~r2 /\ ~r34) => compiler = "pdflatex"

C16_Witness ==
    /\ pc = "selected"
    /\ RefersTo(tex_content, ProgrammableOnlyPackages)
    /\ HasNonAscii(tex_content)
    /\ HasFontCommand(tex_content)
    /\ compiler = "lualatex"


(***************************************************************************)
(* is_safe_path and create_project_structure                               *)
(***************************************************************************)
\* os.path.normpath on the components: "." and empty components vanish,
\* "x/.." collapses, a leading ".." is kept on a relative path and dropped
\* on an absolute one
RECURSIVE NormSegs(_, _, _)
NormSegs(segs, abs, acc) ==
    IF segs = << >> THEN acc
    ELSE LET s == Head(segs)
             rest == Tail(segs)
         IN  IF s = "." \/ s = ""
             THEN NormSegs(rest, abs, acc)
             ELSE IF s = ".."
             THEN IF Len(acc) > 0 /\ acc[Len(acc)] # ".."
                  THEN NormSegs(rest, abs, SubSeq(acc, 1, Len(acc) - 1))
                  ELSE IF abs THEN NormSegs(rest, abs, acc)
                  ELSE NormSegs(rest, abs, Append(acc, ".."))
             ELSE NormSegs(rest, abs, Append(acc, s))

normpath(path) == [abs |-> path.abs, segs |-> NormSegs(path.segs, path.abs, << >>)]

\* lines 63-80.  normalized.startswith('..'): the first component is "..";
\* '/../' in normalized: a ".." component between two separators
is_safe_path(path) ==
    LET normalized == normpath(path)
        n == Len(normalized.segs)
    IN  ~ \/ (~normalized.abs /\ n > 0 /\ normalized.segs[1] = "..")
          \/ \E i \in 1..(n - 1) :
                normalized.segs[i] = ".." /\ (i > 1 \/ normalized.abs)
          \/ normalized.abs

\* Path(...).suffix.lower() of the last component
Suffix(path) ==
    LET n == Len(path.segs)
        last == IF n = 0 THEN "" ELSE path.segs[n]
    IN  IF last \in {"main.tex", "PAPER.tex", "thesis.tex", "a.tex", "b.tex"} THEN ".tex"
        ELSE IF last = "refs.bib" THEN ".bib"
        ELSE IF last = "fig.png" THEN ".png"
        ELSE IF last = "c.exe" THEN ".exe"
        ELSE ""

\* line 27
ALLOWED_EXTENSIONS ==
    {".tex", ".cls", ".sty", ".bib", ".bst",
     ".pdf", ".png", ".jpg", ".jpeg", ".gif", ".eps", ".svg",
     ".txt", ".dat", ".csv",
     ".lua", ".py", ".r"}

\* str.lower() on the strings of this model
Lower(s) ==
    IF s = "PAPER.tex" THEN "paper.tex"
    ELSE IF s = "TeX" THEN "tex"
    ELSE IF s = "PNG" THEN "png"
    ELSE s

\* line 121
BinaryFormats == {"png", "jpg", "jpeg", "gif", "pdf", "eps"}

\* current_path / name
Join(current_path, name) == IF name.abs THEN name.segs ELSE current_path \o name.segs

\* the directory the kernel reaches by following segs from "/", every
\* directory on the way having to exist
RECURSIVE WalkDir(_, _, _)
WalkDir(dirs, segs, cur) ==
    IF cur \notin dirs THEN [ok |-> FALSE, at |-> cur]
    ELSE IF segs = << >> THEN [ok |-> TRUE, at |-> cur]
    ELSE LET s == Head(segs)
             nxt == IF s = "." THEN cur
                    ELSE IF s = ".."
                    THEN (IF cur = << >> THEN cur ELSE SubSeq(cur, 1, Len(cur) - 1))
                    ELSE Append(cur, s)
         IN  WalkDir(dirs, Tail(segs), nxt)

\* where the path lies on disk: its parent directory must exist; a final "."
\* or ".." names a directory
OnDisk(dirs, path) ==
    LET n == Len(path)
        parent == WalkDir(dirs, SubSeq(path, 1, n - 1), << >>)
        last == path[n]
    IN  IF ~parent.ok THEN [ok |-> FALSE, at |-> parent.at, dir |-> FALSE]
        ELSE IF last \in {".", ".."}
        THEN LET d == WalkDir(dirs, <<last>>, parent.at)
             IN  [ok |-> d.ok, at |-> d.at, dir |-> TRUE]
        ELSE [ok |-> TRUE, at |-> Append(parent.at, last),
              dir |-> Append(parent.at, last) \in dirs]

\* line 102: folder_path.mkdir(exist_ok=True); a missing parent, or a file
\* already at the path, raises
mkdir(st, path) ==
    LET t == OnDisk(st.dirs, path)
    IN  IF ~t.ok \/ t.at \in st.written THEN [st EXCEPT !.raised = TRUE]
        ELSE [st EXCEPT !.dirs = @ \cup {t.at}]

\* line 115
ExtensionAllowed(file_ext) == ~(file_ext # "" /\ file_ext \notin ALLOWED_EXTENSIONS)

\* lines 106-141 for one file: st.paths is the dictionary file_paths
CreateFile(file_info, current_path, st) ==
    LET file_path == Join(current_path, file_info.name)
        t == OnDisk(st.dirs, file_path)
    IN  IF ~is_safe_path(file_info.name) THEN st
        ELSE IF ~ExtensionAllowed(Suffix(file_info.name)) THEN st
        ELSE IF Lower(file_info.format) \in BinaryFormats /\ ~file_info.content.base64 THEN st
        ELSE IF ~t.ok \/ t.dir THEN st
        ELSE [st EXCEPT !.written = @ \cup {t.at},
                        !.paths = (file_info.id :> file_path) @@ @]

RECURSIVE CreateFiles(_, _, _, _)
CreateFiles(files, i, current_path, st) ==
    IF i > Len(files) THEN st
    ELSE CreateFiles(files, i + 1, current_path, CreateFile(files[i], current_path, st))

\* lines 94-148, with the dictionary and the disk carried in st; an
\* exception of mkdir leaves the function (st.raised)
RECURSIVE create_project_structure(_, _, _)
RECURSIVE CreateSubfolders(_, _, _, _)
create_project_structure(folder_data, current_path, st) ==
    LET folder_path == IF folder_data.is_root THEN current_path
                       ELSE Join(current_path, folder_data.name)
        made == IF folder_data.is_root THEN st ELSE mkdir(st, folder_path)
    IN  IF made.raised THEN made
        ELSE CreateSubfolders(folder_data.subfolders, 1, folder_path,
                              CreateFiles(folder_data.files, 1, folder_path, made))

CreateSubfolders(subfolders, i, current_path, st) ==
    IF i > Len(subfolders) \/ st.raised THEN st
    ELSE CreateSubfolders(subfolders, i + 1, current_path,
                          create_project_structure(subfolders[i], current_path, st))


(***************************************************************************)
(* find_main_tex_file                                                      *)
(***************************************************************************)
\* lines 165-172: the .tex files that were materialized, files of a folder
\* before its subfolders, subfolders in order
\* variant: the declared format is compared as written
IsTexFile_case_sensitive(file_info, paths) ==
    file_info.format = "tex" /\ file_info.id \in DOMAIN paths

\* lines 167-168
IsTexFile(file_info, paths) ==
    Lower(file_info.format) = "tex" /\ file_info.id \in DOMAIN paths

RECURSIVE collect_tex_files(_, _)
RECURSIVE CollectSubfolders(_, _, _)

collect_tex_files(folder, paths) ==
    LET Keep(file_info) == IsTexFile(file_info, paths)
    IN  SelectSeq(folder.files, Keep) \o CollectSubfolders(folder.subfolders, 1, paths)

CollectSubfolders(subfolders, i, paths) ==
    IF i > Len(subfolders) THEN << >>
    ELSE collect_tex_files(subfolders[i], paths) \o CollectSubfolders(subfolders, i + 1, paths)

\* the first of the indices at which a loop over tex_files returns, 0 when
\* it runs to its end
FirstWhere(hits) ==
    IF hits = {} THEN 0 ELSE CHOOSE k \in hits : \A j \in hits : k <= j

\* `if specified_main:` -- None and the empty string are false
Truthy(name) == name # NoName

\* lines 180-183
ByHint(tex_files, specified_main) ==
    LET Match(file_info) == file_info.name = specified_main
    IN  IF Truthy(specified_main)
        THEN FirstWhere({k \in 1..Len(tex_files) : Match(tex_files[k])})
        ELSE 0

\* line 187
common_names == <<"main.tex", "document.tex", "paper.tex", "thesis.tex">>

LowerName(name) == [abs |-> name.abs, segs |-> [k \in 1..Len(name.segs) |-> Lower(name.segs[k])]]

\* variant: the first candidate with any conventional name, in traversal order
ByCommonName_traversal_first(tex_files) ==
    LET Match(file_info) ==
            \E c \in 1..Len(common_names) :
                LowerName(file_info.name) = Rel(<<Lower(common_names[c])>>)
    IN  FirstWhere({k \in 1..Len(tex_files) : Match(tex_files[k])})

\* lines 188-191: for each conventional name in turn, the first candidate
\* bearing it
ByCommonName(tex_files) ==
    LET Hit(c) ==
            LET Match(file_info) == LowerName(file_info.name) = Rel(<<Lower(common_names[c])>>)
            IN  FirstWhere({k \in 1..Len(tex_files) : Match(tex_files[k])})
        named == {c \in 1..Len(common_names) : Hit(c) > 0}
    IN  IF named = {} THEN 0
        ELSE Hit(CHOOSE c \in named : \A e \in named : c <= e)

\* line 196: the slice content[:1000] and the marker '\\documentclass'
HeadChars == 1000

MarkerLen == 14

\* content.docclass is the position (from 1) of the first \documentclass in
\* the content, 0 when there is none
ByDocumentclass(tex_files) ==
    LET Match(file_info) ==
            /\ file_info.content.docclass >= 1
            /\ file_info.content.docclass - 1 + MarkerLen <= HeadChars
    IN  FirstWhere({k \in 1..Len(tex_files) : Match(tex_files[k])})

\* variant: the conventional names are tried before the hint
find_main_tex_file_convention_first(folder_data, paths, specified_main) ==
    LET tex_files == collect_tex_files(folder_data, paths)
        PathOf(k) == paths[tex_files[k].id]
    IN  IF tex_files = << >> THEN None
        ELSE IF ByCommonName(tex_files) > 0 THEN PathOf(ByCommonName(tex_files))
        ELSE IF ByHint(tex_files, specified_main) > 0
        THEN PathOf(ByHint(tex_files, specified_main))
        ELSE IF ByDocumentclass(tex_files) > 0 THEN PathOf(ByDocumentclass(tex_files))
        ELSE PathOf(1)

\* lines 162-202
find_main_tex_file(folder_data, paths, specified_main) ==
    LET tex_files == collect_tex_files(folder_data, paths)
        PathOf(k) == paths[tex_files[k].id]
    IN  IF tex_files = << >> THEN None
        ELSE IF ByHint(tex_files, specified_main) > 0
        THEN PathOf(ByHint(tex_files, specified_main))
        ELSE IF ByCommonName(tex_files) > 0 THEN PathOf(ByCommonName(tex_files))
        ELSE IF ByDocumentclass(tex_files) > 0 THEN PathOf(ByDocumentclass(tex_files))
        ELSE PathOf(1)

(***************************************************************************)
(* The start of compile_latex_project on a project tree                    *)
(***************************************************************************)
\* lines 441-444
Materialize ==
    /\ pc = "materialize"
    /\ LET r == create_project_structure(project_data, BasePath,
                    [dirs |-> disk.dirs, written |-> disk.written,
                     raised |-> FALSE, paths |-> << >>])
       IN  /\ disk' = [dirs |-> r.dirs, written |-> r.written, raised |-> r.raised]
           /\ IF r.raised
              THEN /\ response' = InternalServerError
                   /\ pc' = "done"
                   /\ tmpdir' = TemporaryDirectoryExit(tmpdir)
                   /\ UNCHANGED file_paths
              ELSE /\ file_paths' = r.paths
                   /\ IF DOMAIN r.paths = {}
                      THEN /\ response' = HTTPException(400, "No valid files found in project")
                           /\ pc' = "done"
                           /\ tmpdir' = TemporaryDirectoryExit(tmpdir)
                      ELSE /\ pc' = "find_main"
                           /\ UNCHANGED <<response, tmpdir>>
    /\ UNCHANGED <<project_data, main_file, main_tex_path,
                   handler, filename_ok, materialized, tex_content, io_ok,
                   compiler, bib_files, aux_file, pdf_exists, proc, bib_proc,
                   invoked, first_pass_logs, bib_run, bib_logs, all_logs, ret,
                   last_logs>>

\* lines 447-450
FindMain ==
    /\ pc = "find_main"
    /\ main_tex_path' = find_main_tex_file(project_data, file_paths, main_file)
    /\ IF main_tex_path' = None
       THEN /\ response' = HTTPException(400, "No main .tex file found in project")
            /\ pc' = "done"
            /\ tmpdir' = TemporaryDirectoryExit(tmpdir)
       ELSE /\ pc' = "found"
            /\ UNCHANGED <<response, tmpdir>>
    /\ UNCHANGED <<project_data, main_file, file_paths, disk,
                   handler, filename_ok, materialized, tex_content, io_ok,
                   compiler, bib_files, aux_file, pdf_exists, proc, bib_proc,
                   invoked, first_pass_logs, bib_run, bib_logs, all_logs, ret,
                   last_logs>>

NextProject == Materialize \/ FindMain

\* the request variables while only the project tree is looked at
RequestIdle ==
    /\ handler = "project"
    /\ filename_ok = TRUE
    /\ materialized = "ok"
    /\ tex_content = << >>
    /\ bib_files = FALSE
    /\ io_ok = TRUE
    /\ tmpdir = "exists"
    /\ compiler = ""
    /\ aux_file = "absent"
    /\ pdf_exists = FALSE
    /\ proc = [n \in 1..3 |-> "none"]
    /\ bib_proc = [p \in {"biber", "bibtex"} |-> "none"]
    /\ invoked = << >>
    /\ first_pass_logs = << >>
    /\ bib_run = FALSE
    /\ bib_logs = << >>
    /\ all_logs = << >>
    /\ ret = NoReturn
    /\ response = NoResponse
    /\ last_logs = << >>


(***************************************************************************)
(* Project trees whose names exercise the path checks                      *)
(***************************************************************************)
MaxFiles == 2

File(id, name, format, docclass, base64) ==
    [id |-> id, name |-> name, format |-> format,
     content |-> [docclass |-> docclass, base64 |-> base64]]

Folder(name, is_root, files, subfolders) ==
    [name |-> name, is_root |-> is_root, files |-> files, subfolders |-> subfolders]

\* a file as the client sends it, its id still to be given
Template(name, format, docclass, base64) == File("", name, format, docclass, base64)

\* the files of a folder: up to max templates, the k-th with the id ids[k]
FilesOf(templates, ids, max) ==
    UNION { { [k \in 1..n |-> [pick[k] EXCEPT !.id = ids[k]]] :
                pick \in [1..n -> templates] } : n \in 0..max }

RootIds == <<"r1", "r2", "r3", "r4">>

SubIds == <<"s1", "s2">>

PathTemplates ==
    { Template(Rel(<<"main.tex">>), "tex", 1, FALSE),
      Template(Rel(<<"..", "main.tex">>), "tex", 1, FALSE),
      Template(Abs(<<"etc", "main.tex">>), "tex", 1, FALSE),
      Template(Rel(<<"sub", "..", "main.tex">>), "tex", 1, FALSE),
      Template(Rel(<<"sub", "a.tex">>), "tex", 0, FALSE),
      Template(Rel(<<"c.exe">>), "tex", 0, FALSE),
      Template(Rel(<<"fig.png">>), "PNG", 0, TRUE),
      Template(Rel(<<"fig.png">>), "png", 0, FALSE) }

SubfolderNames ==
    { Rel(<<"sub">>), Rel(<<"..">>), Rel(<<"..", "out">>),
      Abs(<<"etc">>), Rel(<<"missing", "deep">>) }

PathSubfolders ==
    { Folder(name, is_root, files, << >>) :
        name \in SubfolderNames, is_root \in BOOLEAN,
        files \in FilesOf({t \in PathTemplates :
                              t.name \in {Rel(<<"main.tex">>), Rel(<<"..", "main.tex">>)}},
                          SubIds, 1) }

PathProjects ==
    { Folder(Rel(<<"paper">>), is_root, files, subfolders) :
        is_root \in BOOLEAN,
        files \in FilesOf(PathTemplates, RootIds, MaxFiles),
        subfolders \in {<< >>} \cup {<<f>> : f \in PathSubfolders} }

InitMaterialize ==
    /\ project_data \in PathProjects
    /\ main_file = NoName
    /\ file_paths = << >>
    /\ main_tex_path = None
    /\ disk = NoDisk
    /\ pc = "materialize"
    /\ RequestIdle

SpecMaterialize == InitMaterialize /\ [][NextProject]_vars

\* the place on disk a recorded path names, as the kernel resolves it
Resolved(path) == OnDisk(disk.dirs, path).at

StrictlyInside(base, path) == Len(path) > Len(base) /\ SubSeq(path, 1, Len(base)) = base

MaterializeDone == pc # "materialize"

\* C12: every document that create_project_structure writes to disk and
\* records in the path mapping lies strictly inside the project root
C12_WrittenInsideRoot ==
    MaterializeDone =>
        /\ \A w \in disk.written : StrictlyInside(BasePath, w)
        /\ \A id \in DOMAIN file_paths : StrictlyInside(BasePath, Resolved(file_paths[id]))


(***************************************************************************)
(* Project trees whose documents exercise the choice of the main file      *)
(***************************************************************************)
DeepIds == <<"d1", "d2">>

OtherIds == <<"o1", "o2">>

\* docclass 987 is the last position at which the marker still ends within
\* the first HeadChars characters
MainTemplates ==
    { Template(Rel(<<"main.tex">>), "tex", 0, FALSE),
      Template(Rel(<<"PAPER.tex">>), "tex", 1, FALSE),
      Template(Rel(<<"a.tex">>), "tex", 987, FALSE),
      Template(Rel(<<"a.tex">>), "TeX", 988, FALSE),
      Template(Rel(<<"b.tex">>), "tex", 0, FALSE) }

OtherTemplates ==
    { Template(Rel(<<"thesis.tex">>), "tex", 0, FALSE),
      Template(Rel(<<"main.tex">>), "bib", 0, FALSE),
      Template(Rel(<<"c.exe">>), "tex", 1, FALSE) }

Hints == { NoName, Rel(<<"a.tex">>), Rel(<<"paper.tex">>), Rel(<<"zzz.tex">>) }

\* root, a first subfolder holding a subfolder of its own, a second subfolder
MainProjects ==
    { Folder(Rel(<<"paper">>), TRUE, rf,
             << Folder(Rel(<<"sec1">>), FALSE, sf,
                       << Folder(Rel(<<"deep">>), FALSE, df, << >>) >>),
                Folder(Rel(<<"sec2">>), FALSE, of, << >>) >>) :
        rf \in FilesOf(MainTemplates, RootIds, MaxFiles),
        sf \in FilesOf(MainTemplates, SubIds, 1),
        df \in FilesOf(MainTemplates, DeepIds, 1),
        of \in FilesOf(MainTemplates \cup OtherTemplates, OtherIds, 1) }

InitResolve ==
    /\ project_data \in MainProjects
    /\ main_file \in Hints
    /\ file_paths = << >>
    /\ main_tex_path = None
    /\ disk = NoDisk
    /\ pc = "materialize"
    /\ RequestIdle

SpecResolve == InitResolve /\ [][NextProject]_vars

\* find_main_tex_file has returned
FindMainDone ==
    \/ pc = "found"
    \/ pc = "done" /\ response = HTTPException(400, "No main .tex file found in project")

\* the documents of the tree, a folder's files before its subfolders
Traversal ==
    LET sec1 == project_data.subfolders[1]
        deep == sec1.subfolders[1]
        sec2 == project_data.subfolders[2]
    IN  project_data.files \o sec1.files \o deep.files \o sec2.files

\* the compilable documents that were materialized
IsCandidate(file_info) ==
    file_info.format \in {"tex", "TeX"} /\ file_info.id \in DOMAIN file_paths

Candidates == SelectSeq(Traversal, IsCandidate)

OnDiskPath(file_info) == file_paths[file_info.id]

Named(name) == {k \in 1..Len(Candidates) : Candidates[k].name = name}

Least(S) == CHOOSE k \in S : \A j \in S : k <= j


\* C13: a hint equal to the name of a materialized compilable document makes
\* find_main_tex_file return the on-disk path of that document (the first so
\* named in traversal order), whatever conventional names or \documentclass
\* markers the other candidates carry
C13_HintOutranksConvention ==
    FindMainDone /\ Truthy(main_file) /\ Named(main_file) # {} =>
        main_tex_path = OnDiskPath(Candidates[Least(Named(main_file))])

Conventional(file_info) ==
    \E c \in 1..Len(common_names) : LowerName(file_info.name) = Rel(<<common_names[c]>>)

InHead(file_info) ==
    file_info.content.docclass \in 1..(HeadChars - MarkerLen + 1)

\* the hinted document is chosen although an earlier candidate has a
\* conventional name and another carries the marker
C13_Witness ==
    /\ pc = "found"
    /\ main_file = Rel(<<"a.tex">>)
    /\ Named(main_file) # {}
    /\ \E k \in 1..Len(Candidates) :
          k < Least(Named(main_file)) /\ Conventional(Candidates[k]) /\ InHead(Candidates[k])
    /\ main_tex_path = OnDiskPath(Candidates[Least(Named(main_file))])

\* C14: find_main_tex_file returns None exactly when no compilable document
\* was materialized; otherwise it returns the path of one of the candidates,
\* also when the hint matches none of them
C14_NotFoundIffNoCandidate ==
    FindMainDone =>
        /\ (main_tex_path = None) <=> (Candidates = << >>)
        /\ Candidates # << >> =>
              \E k \in 1..Len(Candidates) : main_tex_path = OnDiskPath(Candidates[k])

\* a hint that matches no candidate, and a candidate returned all the same
C14_Witness ==
    /\ pc = "found"
    /\ main_file = Rel(<<"zzz.tex">>)
    /\ Named(main_file) = {}
    /\ \E k \in 1..Len(Candidates) : main_tex_path = OnDiskPath(Candidates[k])

\* the place of a name in the priority list main > document > paper > thesis,
\* 0 for any other name
Rank(file_info) ==
    IF Conventional(file_info)
    THEN CHOOSE c \in 1..Len(common_names) : LowerName(file_info.name) = Rel(<<common_names[c]>>)
    ELSE 0

\* the candidate the three ordered rules pick
RuleChoice ==
    LET all == 1..Len(Candidates)
        named == {k \in all : Rank(Candidates[k]) > 0}
        marked == {k \in all : InHead(Candidates[k])}
    IN  IF named # {}
        THEN CHOOSE k \in named :
                \A j \in named :
                    \/ Rank(Candidates[k]) < Rank(Candidates[j])
                    \/ Rank(Candidates[k]) = Rank(Candidates[j]) /\ k <= j
        ELSE IF marked # {} THEN Least(marked)
        ELSE 1

\* C15: with no hint the result is the candidate picked by the first rule
\* that matches: the best-ranked conventional name (case-insensitive, priority
\* order before traversal order), else the first candidate with \documentclass
\* in its first 1000 characters, else the first candidate of the traversal
C15_OrderedRules ==
    FindMainDone /\ ~Truthy(main_file) /\ Candidates # << >> =>
        main_tex_path = OnDiskPath(Candidates[RuleChoice])

\* a main.tex traversed after a PAPER.tex is chosen
C15_Witness ==
    /\ pc = "found"
    /\ ~Truthy(main_file)
    /\ \E k, j \in 1..Len(Candidates) :
          /\ k < j
          /\ Candidates[k].name = Rel(<<"PAPER.tex">>)
          /\ Candidates[j].name = Rel(<<"main.tex">>)
          /\ main_tex_path = OnDiskPath(Candidates[j])
          /\ main_tex_path # OnDiskPath(Candidates[k])


(***************************************************************************)
(* C21.  Within one request the stages run one after the other: the        *)
(* subprocesses are invoked in the order pass 1, bibliography processors,  *)
(* pass 2, pass 3, each pass at most once and at most three passes, all    *)
(* with the engine chosen from the entry document; the bibliography stage  *)
(* and pass 2 are reached only after pass 1 exited 0, pass 2 only after    *)
(* the bibliography stage returned, pass 3 only after pass 2 exited 0; and *)
(* the bibliography decision is taken exactly once, between pass 1 and     *)
(* pass 2.                                                                 *)
(***************************************************************************)
\* the place of an invocation in the order of the stages
StageRank(c) == IF c.stage = "bib" THEN 2 ELSE IF c.n = 1 THEN 1 ELSE c.n + 1

IsEngineCall(c) == c.stage = "engine"

BibCalls(calls) == SelectSeq(calls, IsBibCall)

C21_StageOrder ==
    /\ \A i, j \in 1..Len(invoked) :
          i < j => /\ StageRank(invoked[i]) <= StageRank(invoked[j])
                   /\ IsEngineCall(invoked[j]) => StageRank(invoked[i]) < StageRank(invoked[j])
    /\ Len(SelectSeq(invoked, IsEngineCall)) <= 3
    /\ \A i \in 1..Len(invoked) :
          IsEngineCall(invoked[i]) =>
              /\ invoked[i].prog = compiler
              /\ compiler = choose_compiler(tex_content)
              /\ proc[invoked[i].n] # "none"
    /\ \A n \in 1..3 : proc[n] # "none" => EngineInvoked(n)
    /\ (BibInvoked \/ bib_logs # << >> \/ EngineInvoked(2)) => proc[1] = "exit0"
    /\ EngineInvoked(2) => bib_logs # << >>
    /\ EngineInvoked(3) => proc[2] = "exit0"

\* a step that takes the bibliography decision: it is the first, it comes
\* after a pass 1 that exited 0 and before pass 2, and it alone invokes
\* processors
C21_DecisionOnce ==
    (<<bib_run, bib_logs>>' # <<bib_run, bib_logs>> \/ BibCalls(invoked') # BibCalls(invoked))
    => /\ bib_logs = << >>
       /\ ~BibInvoked
       /\ bib_logs' # << >>
       /\ proc[1] = "exit0"
       /\ ~EngineInvoked(2)
       /\ proc' = proc

C21_Sequential == [](C21_StageOrder) /\ [][C21_DecisionOnce]_vars

C21_Witness ==
    /\ pc = "done"
    /\ Len(invoked) = 5
    /\ EngineInvoked(3)
    /\ bib_proc["biber"] = "exit1"
    /\ bib_proc["bibtex"] = "exit0"


(***************************************************************************)
(* The request under fair scheduling: the handler is sequential code, so   *)
(* whenever a step of the request is possible one is eventually taken      *)
(***************************************************************************)
SpecLive == Init /\ [][Next]_vars /\ WF_vars(Next)

\* the request has been answered
Terminal == pc = "done" /\ response # NoResponse

Locations == <<"start", "pass1", "bib", "pass2", "pass3", "finalize", "returned", "done">>

\* the place of a location in the order of the stages, 0 for a request that
\* is inside a subprocess call
LocationRank(l) ==
    IF \E k \in 1..Len(Locations) : Locations[k] = l
    THEN CHOOSE k \in 1..Len(Locations) : Locations[k] = l
    ELSE 0

\* every step moves the request to a later stage, or into a subprocess call
C22_NoStageRepeated ==
    \/ LocationRank(pc') > LocationRank(pc) /\ LocationRank(pc) > 0
    \/ LocationRank(pc') = 0 /\ LocationRank(pc) > 0

\* the answer is success, a failure with status "error", or an HTTP error
C22_OneAnswer ==
    Terminal => /\ response.status \in {"success", "error", "HTTPException"}
                /\ (response.status = "success") = (ret.success /\ pdf_exists /\ io_ok)

(***************************************************************************)
(* C22.  Every request eventually reaches a terminal state, answered with  *)
(* success or with one failure, given that every subprocess call comes     *)
(* back; no step repeats a stage, and no step is taken after the terminal  *)
(* state.                                                                  *)
(***************************************************************************)
C22_Terminates ==
    /\ <>Terminal
    /\ [](C22_OneAnswer)
    /\ [][C22_NoStageRepeated /\ ~Terminal]_vars

C22_Witness ==
    /\ Terminal
    /\ response.status = "success"
    /\ proc[3] = "timeout" \/ proc[3] = "exit0"
    /\ bib_proc["biber"] = "missing"


(***************************************************************************)
(* C23.  When the bibliography stage invokes processors and none exits 0,  *)
(* no third pass is invoked, as when the stage is skipped: a request whose *)
(* pass 1 and pass 2 exit 0 ends after pass 2, its transcript has exactly  *)
(* two compilation-pass sections, and the transcripts of the failed        *)
(* processor attempts lie between the two.                                 *)
(***************************************************************************)
\* processors were invoked and none exited 0
BibAttemptedUnsuccessful == BibStageDone /\ BibInvoked /\ ~bib_run

\* seq has the run part at positions k + 1 .. k + Len(part)
RunAt(seq, part, k) ==
    k + Len(part) <= Len(seq) /\ SubSeq(seq, k + 1, k + Len(part)) = part

C23_AttemptedNoThirdPass ==
    BibAttemptedUnsuccessful
    => /\ ~EngineInvoked(3)
       /\ (CompileReturned /\ proc[1] = "exit0" /\ proc[2] = "exit0")
            => /\ Len(PassSections(ret.logs)) = 2
               /\ \E k \in 0..Len(ret.logs) :
                    RunAt(ret.logs,
                          PassLogs(1, compiler, 0) \o BibSection(FALSE, bib_logs)
                              \o PassLogs(2, compiler, 0),
                          k)

====
